---------------------------- MODULE Spec2Model ----------------------------
(***************************************************************************)
(* Model of rwanda_transport_sentiment.py: the language detector, the      *)
(* sentiment analyser, the three collectors and the orchestration of       *)
(* main().                                                                 *)
(*                                                                         *)
(* A text is a sequence of pieces.  A piece is a run of characters that    *)
(* the program never looks inside: a word, the full stop "." or one        *)
(* whitespace character " ".  Pieces that touch each other without a       *)
(* whitespace piece in between form one token, as the characters of a      *)
(* Python string do.                                                       *)
(***************************************************************************)
EXTENDS Integers, Sequences, FiniteSets, TLC

VARIABLES
    text,        \* LanguageDetector.detect: the argument
    lang,        \* LanguageDetector.detect: the value returned, "none" before the call
    arg,         \* SentimentAnalyzer.analyze: the argument, a Python value
    detectFails, \* environment: the detector call inside analyze raises
    polarity,    \* environment: TextBlob(t).sentiment.polarity for each text t in play
    compound,    \* environment: sia.polarity_scores(t)['compound'] for each text t in play
    result,      \* SentimentAnalyzer.analyze: the value returned, "none" before the call
    called,      \* SentimentAnalyzer.analyze: the collaborators it called, in order
    items,       \* SentimentAnalyzer.batch_analyze: the caller's list
    given,       \* SentimentAnalyzer.batch_analyze: the list as it was when passed in
    returned,    \* SentimentAnalyzer.batch_analyze: the list returned
    bpc,         \* SentimentAnalyzer.batch_analyze: "ready" before the call, "done" after
    scope,       \* what the run is: "main" for main(), else the one collector called alone
    pc,          \* where the run stands: the collector at work, "analyze", "done", "raised"
    window,      \* <<start_date, end_date>>
    limit,       \* max_posts, max_items and max_articles, by collector
    unit,        \* index of the keyword, feed or page the collector at work handles next
    reddit_data, \* RedditCollector.collect: posts
    rss_data,    \* RSSCollector.collect: articles
    news_data,   \* NewsScraper.collect: articles
    all_data,    \* main: all_data, the list collect_all returned; processed_data later
    log,         \* the warnings and errors logged, in order
    calls,       \* history: the collectors whose collect was called, in order
    attempts     \* history: the fetches issued and what each of them met, in order

detVars   == <<text, lang>>
anaVars   == <<arg, detectFails, result, called>>
scoreVars == <<polarity, compound>>
batVars   == <<items, given, returned, bpc>>
runVars   == <<scope, pc, window, limit, unit>>
dataVars  == <<reddit_data, rss_data, news_data, all_data>>
histVars  == <<log, calls, attempts>>
pipeVars  == <<runVars, dataVars, histVars>>
vars      == <<detVars, anaVars, scoreVars, batVars, pipeVars>>

---------------------------------------------------------------------------
(* Bounds *)

\* longest text, in pieces, handed to detect
MaxLen == 5
\* longest text, in pieces, handed to analyze
MaxAnalyzeLen == 3
\* longest list handed to batch_analyze
MaxBatch == 2

---------------------------------------------------------------------------
(* Texts *)

Space == " "

Pieces == {Space, "Le", "s", "est", "Ubus", "bus"}

TextsUpTo(n) == UNION {[1..k -> Pieces] : k \in 0..n}

\* str.lower(), piece by piece
LowerPiece(p) ==
    CASE p = "Le"   -> "le"
      [] p = "Ubus" -> "ubus"
      [] OTHER      -> p

lower(t) == [i \in 1..Len(t) |-> LowerPiece(t[i])]

\* str.split() with no argument: the maximal runs of non-whitespace, in order
RECURSIVE splitFrom(_, _)
splitFrom(t, cur) ==
    IF t = <<>>
    THEN IF cur = "" THEN <<>> ELSE <<cur>>
    ELSE IF Head(t) = Space
         THEN IF cur = "" THEN splitFrom(Tail(t), "")
                          ELSE <<cur>> \o splitFrom(Tail(t), "")
         ELSE splitFrom(Tail(t), cur \o Head(t))

split(t) == splitFrom(t, "")

\* set(list)
ToSet(s) == {s[i] : i \in 1..Len(s)}

\* str.strip(): leading and trailing whitespace removed
RECURSIVE lstrip(_)
lstrip(t) == IF t # <<>> /\ Head(t) = Space THEN lstrip(Tail(t)) ELSE t

RECURSIVE rstrip(_)
rstrip(t) ==
    IF t # <<>> /\ t[Len(t)] = Space THEN rstrip(SubSeq(t, 1, Len(t) - 1)) ELSE t

strip(t) == rstrip(lstrip(t))

---------------------------------------------------------------------------
(* LanguageDetector *)

RW_WORDS == {"ubus", "ikintu", "kuri", "ndishimye", "cyane", "mwiza"}
FR_WORDS == {"le", "la", "les", "un", "une", "des", "est", "sont"}

Languages == {"en", "fr", "rw"}

\* the French test made before the Kinyarwanda test
detect_fr_first(t) ==
    LET words == ToSet(split(lower(t)))
    IN  IF Cardinality(words \cap FR_WORDS) >= 2 THEN "fr"
        ELSE IF words \cap RW_WORDS # {} THEN "rw"
        ELSE "en"

\* French keywords counted over the word list, not over the word set
detect_count_hits(t) ==
    LET ws == split(lower(t))
    IN  IF ToSet(ws) \cap RW_WORDS # {} THEN "rw"
        ELSE IF Cardinality({i \in 1..Len(ws) : ws[i] \in FR_WORDS}) >= 2 THEN "fr"
        ELSE "en"

detect(t) ==
    LET words == ToSet(split(lower(t)))
    IN  IF words \cap RW_WORDS # {} THEN "rw"
        ELSE IF Cardinality(words \cap FR_WORDS) >= 2 THEN "fr"
        ELSE "en"

---------------------------------------------------------------------------
(* Python values handed to analyze: a str, or something that is no str *)

PyStr(t) == [type |-> "str", val |-> t]
PyNone   == [type |-> "NoneType", val |-> <<>>]
PyInt    == [type |-> "int", val |-> <<>>]

isinstance_str(v) == v.type = "str"

---------------------------------------------------------------------------
(* SentimentAnalyzer *)

Sentiments == {"positive", "neutral", "negative"}

\* scores are hundredths: 20 is 0.2 and 5 is 0.05
POLARITY_BAND == 20
COMPOUND_BAND == 5

\* what a scorer call can do: return a score in [-1, 1], or raise
Score(n)  == [raised |-> FALSE, score |-> n]
Raise     == [raised |-> TRUE, score |-> 0]
ScoreVals == {-21, -20, -6, -5, 0, 5, 6, 20, 21}
Outcomes  == {Score(n) : n \in ScoreVals} \cup {Raise}

\* the bands taken as closed: a score on the threshold already leaves neutral
band_inclusive(s, b) ==
    IF s >= b THEN "positive" ELSE IF s <= -b THEN "negative" ELSE "neutral"

\* 'positive' if s > b else ('negative' if s < -b else 'neutral')
band(s, b) ==
    IF s > b THEN "positive" ELSE IF s < -b THEN "negative" ELSE "neutral"

\* the guard written as `not text`: a whitespace-only string passes it
guard_no_strip(v) == ~isinstance_str(v) \/ v.val = <<>>

\* not isinstance(text, str) or not text.strip()
guard(v) == ~isinstance_str(v) \/ strip(v.val) = <<>>

\* analyze(v) when the detector call raises iff df and the scorers behave as pol and
\* comp: the label returned and the collaborators called, in call order.  Every
\* exception raised inside the try block ends in the handler's return 'neutral'.
analyze(v, df, pol, comp) ==
    IF guard(v)
    THEN [label |-> "neutral", calls |-> <<>>]
    ELSE IF df
    THEN [label |-> "neutral", calls |-> <<"detect">>]
    ELSE IF detect(v.val) \in {"en", "fr"}
    THEN [label |-> IF pol[v.val].raised THEN "neutral"
                    ELSE band(pol[v.val].score, POLARITY_BAND),
          calls |-> <<"detect", "polarity">>]
    ELSE [label |-> IF comp[v.val].raised THEN "neutral"
                    ELSE band(comp[v.val].score, COMPOUND_BAND),
          calls |-> <<"detect", "compound">>]

\* item.get('text', '')
get_text(item) == IF "text" \in DOMAIN item THEN item.text ELSE PyStr(<<>>)

\* every record labelled with the label of the first record's text
batch_analyze_first(its, df, pol, comp) ==
    [i \in 1..Len(its) |->
        ("sentiment" :> analyze(get_text(its[1]), df, pol, comp).label) @@ its[i]]

\* for item in items: item['sentiment'] = self.analyze(item.get('text', ''))
batch_analyze(its, df, pol, comp) ==
    [i \in 1..Len(its) |->
        ("sentiment" :> analyze(get_text(its[i]), df, pol, comp).label) @@ its[i]]

---------------------------------------------------------------------------
(* Inputs of the detector, the analyser and the batch call *)

AnalyzeArgs == {PyStr(t) : t \in TextsUpTo(MaxAnalyzeLen)} \cup {PyNone, PyInt}

\* the texts of the records handed to batch_analyze, and what the scorers do on them
BatchTexts    == {<<"bus">>, <<"Ubus">>}
BatchOutcomes == {Score(-21), Score(6), Raise}
BatchValues   == {PyStr(t) : t \in BatchTexts} \cup {PyStr(<<Space>>), PyNone}
BatchRecords  ==
    {[id |-> i, text |-> v] : i \in {"a", "b"}, v \in BatchValues}
        \cup {[id |-> i] : i \in {"a", "b"}}
BatchLists    == UNION {[1..k -> BatchRecords] : k \in 0..MaxBatch}

DetectIdle  == text = <<>> /\ lang = "idle"
AnalyzeIdle == arg = PyNone /\ detectFails = FALSE /\ result = "idle" /\ called = <<>>
ScoreIdle   == polarity = <<>> /\ compound = <<>>
BatchIdle   == items = <<>> /\ given = <<>> /\ returned = <<>> /\ bpc = "idle"
PipeIdle    ==
    /\ scope = "idle" /\ pc = "idle" /\ window = <<>> /\ limit = <<>> /\ unit = 0
    /\ reddit_data = <<>> /\ rss_data = <<>> /\ news_data = <<>> /\ all_data = <<>>
    /\ log = <<>> /\ calls = <<>> /\ attempts = <<>>

---------------------------------------------------------------------------
(* LanguageDetector.detect called once on any text *)

InitDetect ==
    /\ text \in TextsUpTo(MaxLen)
    /\ lang = "none"
    /\ AnalyzeIdle /\ ScoreIdle /\ BatchIdle /\ PipeIdle

DetectCall ==
    /\ lang = "none"
    /\ lang' = detect(text)
    /\ UNCHANGED <<text, anaVars, scoreVars, batVars, pipeVars>>

NextDetect == DetectCall

SpecDetect == InitDetect /\ [][NextDetect]_vars

---------------------------------------------------------------------------
(* SentimentAnalyzer.analyze called once on any value *)

InitAnalyze ==
    /\ arg \in AnalyzeArgs
    /\ detectFails \in BOOLEAN
    /\ polarity \in [{arg.val} -> Outcomes]
    /\ compound \in [{arg.val} -> Outcomes]
    /\ result = "none"
    /\ called = <<>>
    /\ DetectIdle /\ BatchIdle /\ PipeIdle

AnalyzeCall ==
    /\ result = "none"
    /\ LET r == analyze(arg, detectFails, polarity, compound)
       IN  /\ result' = r.label
           /\ called' = r.calls
    /\ UNCHANGED <<arg, detectFails, detVars, scoreVars, batVars, pipeVars>>

NextAnalyze == AnalyzeCall

SpecAnalyze == InitAnalyze /\ [][NextAnalyze]_vars

---------------------------------------------------------------------------
(* SentimentAnalyzer.batch_analyze called once on any list of records *)

InitBatch ==
    /\ items \in BatchLists
    /\ given = items
    /\ returned = <<>>
    /\ bpc = "ready"
    /\ polarity \in [BatchTexts -> BatchOutcomes]
    /\ compound \in [BatchTexts -> BatchOutcomes]
    /\ DetectIdle /\ AnalyzeIdle /\ PipeIdle

\* the records are changed in place and the list passed in is the list returned
BatchCall ==
    /\ bpc = "ready"
    /\ items' = batch_analyze(items, FALSE, polarity, compound)
    /\ returned' = items'
    /\ bpc' = "done"
    /\ UNCHANGED <<given, detVars, anaVars, scoreVars, pipeVars>>

NextBatch == BatchCall

SpecBatch == InitBatch /\ [][NextBatch]_vars

---------------------------------------------------------------------------
(* Time, windows, records and the log *)

\* instants; datetime.now() is the latest of them
Times   == {0, 1, 2}
Now     == 2
\* <<start_date, end_date>>: [1, 1] leaves out an instant on each side, [1, 2] has
\* both of its ends among the instants
Windows == {<<1, 1>>, <<1, 2>>}

\* the test against start_date left out
InWindow_no_start(t, w) == t <= w[2]

\* start <= t <= end
InWindow(t, w) == w[1] <= t /\ t <= w[2]

\* datetime.fromtimestamp(ts): the same instant as a datetime
fromtimestamp(ts) == ts

\* s[:n]
Take(s, n) == SubSeq(s, 1, IF Len(s) < n THEN Len(s) ELSE n)

LogEntry(level, msg, about) == [level |-> level, msg |-> msg, about |-> about]

\* the limits a caller may pass to a collector called alone
Limits == {1, 2}
\* collect_all's defaults
MAX_REDDIT == 200
MAX_RSS    == 50
MAX_NEWS   == 20

---------------------------------------------------------------------------
(* RedditCollector *)

\* the first two of KEYWORDS
REDDIT_KEYWORDS == <<"Rwanda transport", "Kigali bus">>

COMMENT_LIMIT == 10
TITLE_LEN     == 80

\* a comment as praw hands it over
Comment(id, body) == [id |-> id, body |-> body, created_utc |-> 0, author |-> "u2"]

\* a submission as praw hands it over; more_fails: comments.replace_more raises
Post(id, t, selftext, comments, more_fails) ==
    [id |-> id, created_utc |-> t, title |-> <<"bus">>, selftext |-> selftext,
     permalink |-> "/r/all/" \o id, author |-> "u1", comments |-> comments,
     more_fails |-> more_fails]

PostIds == {"p1", "p2"}

CommentLists ==
    { <<>>,
      <<Comment("c1", <<"Ubus">>)>>,
      <<Comment("c1", <<"[deleted]">>), Comment("c2", <<"bus">>)>>,
      <<Comment("c1", <<>>), Comment("c2", <<"bus">>)>>,
      <<Comment("c1", <<Space>>)>>,
      [i \in 1..(COMMENT_LIMIT + 1) |-> Comment("c" \o ToString(i), <<"bus">>)] }

PlainPosts  == {Post(i, t, <<>>, <<>>, FALSE) : i \in PostIds, t \in Times}
DetailPosts ==
    {Post("p1", 1, <<>>, cl, FALSE) : cl \in CommentLists}
        \cup {Post("p1", 1, <<"Ubus">>, <<>>, FALSE),
              Post("p1", 1, <<>>, <<Comment("c1", <<"Ubus">>)>>, TRUE)}

\* what one search does: the submissions it yields, then the end of the listing or,
\* if fail, an exception
Search(posts, fail) == [posts |-> posts, fail |-> fail]

RichSearches ==
    {Search(ps, f) :
        ps \in {<<>>} \cup {<<q>> : q \in PlainPosts \cup DetailPosts}
                      \cup {<<q1, q2>> : q1 \in {Post("p1", t, <<>>, <<>>, FALSE) : t \in Times},
                                         q2 \in {Post("p2", t, <<>>, <<>>, FALSE) : t \in Times}},
        f \in BOOLEAN}

LeanSearches ==
    { Search(<<>>, FALSE), Search(<<>>, TRUE),
      Search(<<Post("p1", 1, <<>>, <<>>, FALSE)>>, FALSE),
      Search(<<Post("p2", 1, <<>>, <<Comment("c1", <<"Ubus">>)>>, FALSE)>>, FALSE) }

Searches(sc) == IF sc = "main" THEN LeanSearches ELSE RichSearches

\* RedditCollector._record
reddit_record(source, rid, txt, date, url, username) ==
    [source |-> source, id |-> rid, text |-> PyStr(txt), date |-> date, url |-> url,
     title |-> Take(txt, TITLE_LEN), username |-> username, user_location |-> "N/A",
     language |-> detect(txt)]

\* f"{sub.title}. {sub.selftext or ''}".strip()
post_text(sub) == strip(sub.title \o <<".", Space>> \o sub.selftext)

post_record(sub) ==
    reddit_record("reddit", sub.id, post_text(sub), fromtimestamp(sub.created_utc),
                  "https://reddit.com" \o sub.permalink, sub.author)

\* the loop over sub.comments.list()[:10]
RECURSIVE comment_records(_, _)
comment_records(sub, cs) ==
    IF cs = <<>> THEN <<>>
    ELSE LET c == Head(cs)
         IN  IF c.body = <<>> \/ c.body = <<"[deleted]">>
             THEN comment_records(sub, Tail(cs))
             ELSE <<reddit_record("reddit_comment", c.id, c.body,
                                  fromtimestamp(c.created_utc),
                                  "https://reddit.com" \o sub.permalink, c.author)>>
                      \o comment_records(sub, Tail(cs))

\* the loop over the comments run on sub.comments.list(), the slice left out
RECURSIVE search_run_uncapped(_, _)
search_run_uncapped(posts, w) ==
    IF posts = <<>> THEN [recs |-> <<>>, failed |-> FALSE]
    ELSE LET sub == Head(posts)
         IN  IF ~InWindow(sub.created_utc, w)
             THEN search_run_uncapped(Tail(posts), w)
             ELSE IF sub.more_fails
             THEN [recs |-> <<post_record(sub)>>, failed |-> TRUE]
             ELSE LET rest == search_run_uncapped(Tail(posts), w)
                  IN  [recs   |-> <<post_record(sub)>> \o comment_records(sub, sub.comments)
                                      \o rest.recs,
                       failed |-> rest.failed]

\* the body of the loop over one search's submissions, to the end of the listing or
\* to the first exception: the records appended and whether an exception ended it
RECURSIVE search_run(_, _)
search_run(posts, w) ==
    IF posts = <<>> THEN [recs |-> <<>>, failed |-> FALSE]
    ELSE LET sub == Head(posts)
         IN  IF ~InWindow(sub.created_utc, w)
             THEN search_run(Tail(posts), w)
             ELSE IF sub.more_fails
             THEN [recs |-> <<post_record(sub)>>, failed |-> TRUE]
             ELSE LET rest == search_run(Tail(posts), w)
                      cs   == Take(sub.comments, COMMENT_LIMIT)
                  IN  [recs   |-> <<post_record(sub)>> \o comment_records(sub, cs)
                                      \o rest.recs,
                       failed |-> rest.failed]

---------------------------------------------------------------------------
(* RSSCollector *)

\* one of the keyword search feeds and one of DIRECT_FEEDS
RSS_URLS ==
    << "https://news.google.com/rss/search?q=Rwanda+transport+fare&hl=en-RW&gl=RW&ceid=RW:en",
       "https://www.newtimes.co.rw/rss.xml" >>

\* a raw date string of a feed entry: one that parses to instant t, one on which
\* parsedate_to_datetime raises, and the empty string
RawDate(t) == [empty |-> FALSE, parses |-> TRUE, t |-> t]
BadDate    == [empty |-> FALSE, parses |-> FALSE, t |-> 0]
EmptyDate  == [empty |-> TRUE, parses |-> FALSE, t |-> 0]

\* datetime | None
Some(t) == [some |-> TRUE, t |-> t]
None    == [some |-> FALSE, t |-> 0]

\* a feed entry is a dict: only the keys the feed gave are in its domain
FullEntry(l, d) ==
    [link |-> l, title |-> <<"bus">>, summary |-> <<"Le", Space, "est">>, published |-> d]
UndatedEntry(l) == [link |-> l, title |-> <<"bus">>]

Links == {"l1", "l2"}

Entries ==
    {FullEntry(l, d) : l \in Links, d \in {RawDate(t) : t \in Times} \cup {BadDate}}
        \cup {UndatedEntry(l) : l \in Links}
        \cup { [link |-> "l1", title |-> <<"bus">>, updated |-> RawDate(1)],
               [link |-> "l1", title |-> <<"bus">>, published |-> BadDate,
                updated |-> RawDate(0)],
               [link |-> "l1", title |-> <<"bus">>, published |-> EmptyDate,
                updated |-> RawDate(0)],
               [link |-> "l1", title |-> <<"bus">>, published |-> EmptyDate],
               [published |-> RawDate(1), author |-> "a1"],
               [summary |-> <<Space>>],
               [author |-> "a1"] }

PairEntries ==
    {FullEntry("l1", RawDate(1)), FullEntry("l1", RawDate(2)),
     FullEntry("l2", RawDate(0)), UndatedEntry("l2")}

\* what feedparser.parse(url) does: raises if parse_fails, else hands over entries;
\* bad > 0: handling entry number bad raises
Feed(entries, parse_fails, bad) ==
    [entries |-> entries, parse_fails |-> parse_fails, bad |-> bad]

RichFeeds ==
    {Feed(<<>>, pf, 0) : pf \in BOOLEAN}
        \cup {Feed(<<e>>, FALSE, b) : e \in Entries, b \in {0, 1}}
        \cup {Feed(<<e1, e2>>, FALSE, b) : e1 \in PairEntries, e2 \in PairEntries, b \in {0, 2}}

LeanFeeds ==
    { Feed(<<>>, FALSE, 0), Feed(<<>>, TRUE, 0),
      Feed(<<FullEntry("l1", RawDate(1))>>, FALSE, 0),
      Feed(<<UndatedEntry("l2")>>, FALSE, 0) }

Feeds(sc) == IF sc = "main" THEN LeanFeeds ELSE RichFeeds

\* RSSCollector._date
\* raw = entry.get('published') or entry.get('updated'): an absent or empty
\* published gives way to updated; a raw that is absent or empty, or on which the
\* parser raises, gives None
rss_date(entry) ==
    LET published == IF "published" \in DOMAIN entry THEN entry.published ELSE EmptyDate
        updated   == IF "updated" \in DOMAIN entry THEN entry.updated ELSE EmptyDate
        raw       == IF ~published.empty THEN published ELSE updated
    IN  IF ~raw.empty /\ raw.parses THEN Some(raw.t) ELSE None

\* the dict appended for one entry
rss_record(entry, url, pub) ==
    LET title   == IF "title" \in DOMAIN entry THEN entry.title ELSE <<"No", Space, "title">>
        summary == IF "summary" \in DOMAIN entry THEN entry.summary ELSE <<>>
        link    == IF "link" \in DOMAIN entry THEN entry.link ELSE url
        txt     == strip(title \o <<".", Space>> \o summary)
    IN  [source |-> "rss", id |-> link, text |-> PyStr(txt),
         date |-> IF pub.some THEN pub.t ELSE Now, url |-> link, title |-> title,
         username |-> IF "author" \in DOMAIN entry THEN entry.author ELSE "N/A",
         user_location |-> "N/A", language |-> detect(txt)]

\* the try block of _parse dropping what it had appended when an exception comes
RECURSIVE rss_run_all_or_nothing(_, _, _, _, _)
rss_run_all_or_nothing(es, k, bad, url, w) ==
    IF es = <<>> THEN [recs |-> <<>>, failed |-> FALSE]
    ELSE IF k = bad THEN [recs |-> <<>>, failed |-> TRUE]
    ELSE LET pub  == rss_date(Head(es))
             rest == rss_run_all_or_nothing(Tail(es), k + 1, bad, url, w)
         IN  IF rest.failed THEN rest
             ELSE IF pub.some /\ ~InWindow(pub.t, w) THEN rest
             ELSE [recs   |-> <<rss_record(Head(es), url, pub)>> \o rest.recs,
                   failed |-> FALSE]

\* the loop of _parse over entries es, of which the first is entry number k of the
\* feed: the dicts appended and whether an exception ended it
RECURSIVE rss_run(_, _, _, _, _)
rss_run(es, k, bad, url, w) ==
    IF es = <<>> THEN [recs |-> <<>>, failed |-> FALSE]
    ELSE IF k = bad THEN [recs |-> <<>>, failed |-> TRUE]
    ELSE LET pub  == rss_date(Head(es))
             rest == rss_run(Tail(es), k + 1, bad, url, w)
         IN  IF pub.some /\ ~InWindow(pub.t, w)
             THEN rest
             ELSE [recs   |-> <<rss_record(Head(es), url, pub)>> \o rest.recs,
                   failed |-> rest.failed]

\* the limit applied to the dicts appended, not to the entries looked at
rss_parse_cut_after(feed, url, max_items, w) ==
    IF feed.parse_fails
    THEN [recs |-> <<>>, failed |-> TRUE]
    ELSE LET run == rss_run(feed.entries, 1, feed.bad, url, w)
         IN  [recs |-> Take(run.recs, max_items), failed |-> run.failed]

\* RSSCollector._parse
rss_parse(feed, url, max_items, w) ==
    IF feed.parse_fails
    THEN [recs |-> <<>>, failed |-> TRUE]
    ELSE rss_run(Take(feed.entries, max_items), 1, feed.bad, url, w)

---------------------------------------------------------------------------
(* NewsScraper *)

NEWS_URLS ==
    << "https://www.newtimes.co.rw/search/node/transport",
       "https://www.ktpress.rw/search/?q=transport" >>

\* f"{p.scheme}://{p.netloc}" of urlparse(base_url)
Origin(base_url) ==
    IF base_url = NEWS_URLS[1] THEN "https://www.newtimes.co.rw"
                               ELSE "https://www.ktpress.rw"

\* art.find('h2'): the element with its text, or None
H2(t)  == [some |-> TRUE, text |-> t]
NoH2   == [some |-> FALSE, text |-> <<>>]

\* art.find('a'): None, an element whose href starts with '/', one whose href does
\* not, or an element with no href
NoA        == [kind |-> "none", href |-> ""]
RelA(h)    == [kind |-> "rel", href |-> h]
AbsA(h)    == [kind |-> "abs", href |-> h]
NoHrefA    == [kind |-> "nohref", href |-> ""]

\* what the GET of the article's link does: fails, or gives the text of its <p>s
BodyFails  == [ok |-> FALSE, text |-> <<>>]
Body(t)    == [ok |-> TRUE, text |-> t]

Article(h2, a, body) == [h2 |-> h2, a |-> a, body |-> body]

Articles ==
    { Article(H2(<<"bus">>), RelA("/a1"), Body(<<"Ubus">>)),
      Article(H2(<<"bus">>), RelA("/a1"), BodyFails),
      Article(H2(<<Space, "bus", Space>>), AbsA("https://www.newtimes.co.rw/a1"),
              Body(<<"Le", Space, "est">>)),
      Article(H2(<<"bus">>), AbsA("https://example.org/a2"), Body(<<>>)),
      Article(NoH2, NoA, BodyFails),
      Article(NoH2, NoA, Body(<<"bus">>)),
      Article(H2(<<"bus">>), NoHrefA, Body(<<"bus">>)) }

PairArticles ==
    { Article(H2(<<"bus">>), RelA("/a1"), BodyFails),
      Article(H2(<<"bus">>), AbsA("https://example.org/a2"), Body(<<>>)),
      Article(H2(<<"bus">>), NoHrefA, Body(<<"bus">>)) }

\* what the GET of one search page does: fails (an exception of requests.get or of
\* raise_for_status), or gives a page with these <article> blocks
Page(ok, articles) == [ok |-> ok, articles |-> articles]

RichPages ==
    {Page(FALSE, <<>>), Page(TRUE, <<>>)}
        \cup {Page(TRUE, <<x>>) : x \in Articles}
        \cup {Page(TRUE, <<x, y>>) : x \in PairArticles, y \in PairArticles}

LeanPages ==
    { Page(FALSE, <<>>), Page(TRUE, <<>>),
      Page(TRUE, <<Article(H2(<<"bus">>), AbsA("https://example.org/a2"), Body(<<>>))>>),
      Page(TRUE, <<Article(H2(<<"bus">>), RelA("/a1"), BodyFails)>>) }

Pages(sc) == IF sc = "main" THEN LeanPages ELSE RichPages

\* link = a['href'] if a else base_url, made absolute when it starts with '/'
news_link(art, base_url) ==
    CASE art.a.kind = "none" -> base_url
      [] art.a.kind = "rel"  -> Origin(base_url) \o art.a.href
      [] OTHER               -> art.a.href

\* NewsScraper._body: '' when the fetch fails
news_body(art) == IF art.body.ok THEN art.body.text ELSE <<>>

\* the dict appended for one <article>
news_record(art, base_url) ==
    LET title == IF art.h2.some THEN strip(art.h2.text) ELSE <<"No", Space, "title">>
        link  == news_link(art, base_url)
        txt   == strip(title \o <<".", Space>> \o news_body(art))
    IN  [source |-> "news", id |-> link, text |-> PyStr(txt), date |-> Now, url |-> link,
         title |-> title, username |-> "N/A", user_location |-> "N/A",
         language |-> detect(txt)]

\* the loop over soup.find_all('article')[:max_articles]: the dicts appended, whether
\* an exception ended it (a['href'] on an <a> without href), and the links whose
\* body fetch failed
RECURSIVE news_run(_, _)
news_run(arts, base_url) ==
    IF arts = <<>> THEN [recs |-> <<>>, failed |-> FALSE, lost |-> <<>>]
    ELSE LET art == Head(arts)
         IN  IF art.a.kind = "nohref"
             THEN [recs |-> <<>>, failed |-> TRUE, lost |-> <<>>]
             ELSE LET rest == news_run(Tail(arts), base_url)
                      link == news_link(art, base_url)
                  IN  [recs   |-> <<news_record(art, base_url)>> \o rest.recs,
                       failed |-> rest.failed,
                       lost   |-> (IF art.body.ok THEN <<>> ELSE <<link>>) \o rest.lost]

\* one turn of the loop over URLS
news_page(page, base_url, max_articles) ==
    IF page.ok
    THEN news_run(Take(page.articles, max_articles), base_url)
    ELSE [recs |-> <<>>, failed |-> TRUE, lost |-> <<>>]

---------------------------------------------------------------------------
(* The run: one collector called alone, or main() *)

Collectors == {"reddit", "rss", "news"}

FirstPc(c) ==
    CASE c = "reddit" -> "reddit_client"
      [] c = "rss"    -> "rss_parse"
      [] OTHER        -> "news_page"

\* the collector collect_all calls when collector c has returned
Following(c) == IF c = "reddit" THEN "rss" ELSE "news"

\* a fetch and what it met
Attempt(what, on, got) == [what |-> what, unit |-> on, got |-> got]

\* reddit_data + rss_data + news_data, the feed items put first
combine_rss_first(r, f, n) == f \o r \o n

\* combined = reddit_data + rss_data + news_data
combine(r, f, n) == r \o f \o n

InitPipe(scopes, limits) ==
    /\ scope \in scopes
    /\ pc = "start"
    /\ window \in Windows
    /\ limit \in limits
    /\ unit = 1
    /\ reddit_data = <<>> /\ rss_data = <<>> /\ news_data = <<>> /\ all_data = <<>>
    /\ log = <<>>
    /\ calls = <<>>
    /\ attempts = <<>>
    /\ DetectIdle /\ AnalyzeIdle /\ ScoreIdle /\ BatchIdle

\* main(): collect_all(start_date, end_date) with its default limits
Init ==
    InitPipe({"main"}, {[reddit |-> MAX_REDDIT, rss |-> MAX_RSS, news |-> MAX_NEWS]})

\* collect(start_date, end_date, n) of one collector, for any n a caller may pass
InitCollect ==
    InitPipe(Collectors, {[reddit |-> n, rss |-> n, news |-> n] : n \in Limits})

\* collector c returns its list: to its caller if it was called alone; else
\* collect_all calls the next collector or, after the last, returns the three lists
\* joined
Return(c) ==
    IF scope # "main"
    THEN pc' = "returned" /\ calls' = calls /\ all_data' = all_data
    ELSE IF c = "news"
    THEN /\ pc' = "analyze"
         /\ calls' = calls
         /\ all_data' = combine(reddit_data, rss_data, news_data')
    ELSE /\ pc' = FirstPc(Following(c))
         /\ calls' = Append(calls, Following(c))
         /\ all_data' = all_data

\* the first collect call: of the collector called alone, or of self.reddit in
\* collect_all
Call ==
    /\ pc = "start"
    /\ LET c == IF scope = "main" THEN "reddit" ELSE scope
       IN  pc' = FirstPc(c) /\ calls' = <<c>>
    /\ UNCHANGED <<scope, window, limit, unit, dataVars, log, attempts>>
    /\ UNCHANGED <<detVars, anaVars, scoreVars, batVars>>

\* RedditCollector.collect up to the keyword loop: _get_client finds the
\* credentials missing (ValueError), or praw.Reddit raises a ValueError, or
\* praw.Reddit raises something else, or the client is there.  Only ValueError is
\* caught: anything else leaves collect, and collect_all and main() with it.
RedditClient ==
    /\ pc = "reddit_client"
    /\ \E cred \in {"missing", "present"}, built \in {"ok", "ValueError", "Exception"} :
          /\ cred = "missing" => built = "ok"
          /\ attempts' = Append(attempts, Attempt("client", cred, built))
          /\ IF cred = "missing" \/ built = "ValueError"
             THEN /\ log' = Append(log, LogEntry("warning", "Skipping Reddit", cred))
                  /\ reddit_data' = reddit_data
                  /\ Return("reddit")
             ELSE IF built = "Exception"
             THEN /\ log' = IF scope = "main"
                            THEN Append(log, LogEntry("error", "Fatal error", "main"))
                            ELSE log
                  /\ pc' = "raised"
                  /\ UNCHANGED <<reddit_data, all_data, calls>>
             ELSE /\ pc' = "reddit_search"
                  /\ UNCHANGED <<log, reddit_data, all_data, calls>>
    /\ UNCHANGED <<scope, window, limit, unit, rss_data, news_data>>
    /\ UNCHANGED <<detVars, anaVars, scoreVars, batVars>>

\* one turn of the loop over KEYWORDS: the search and everything done with what it
\* yields; after the last keyword collect returns
RedditSearch ==
    /\ pc = "reddit_search"
    /\ \E resp \in Searches(scope) :
          /\ Len(resp.posts) <= limit.reddit
          /\ LET run    == search_run(resp.posts, window)
                 failed == run.failed \/ resp.fail
                 kw     == REDDIT_KEYWORDS[unit]
             IN  /\ reddit_data' = reddit_data \o run.recs
                 /\ log' = IF failed
                           THEN Append(log, LogEntry("error", "Reddit search error", kw))
                           ELSE log
                 /\ attempts' = Append(attempts, Attempt("search", kw, resp))
    /\ IF unit < Len(REDDIT_KEYWORDS)
       THEN unit' = unit + 1 /\ UNCHANGED <<pc, calls, all_data>>
       ELSE unit' = 1 /\ Return("reddit")
    /\ UNCHANGED <<scope, window, limit, rss_data, news_data>>
    /\ UNCHANGED <<detVars, anaVars, scoreVars, batVars>>

\* one call of _parse from RSSCollector.collect; after the last feed collect returns
RssParse ==
    /\ pc = "rss_parse"
    /\ \E feed \in Feeds(scope) :
          LET url == RSS_URLS[unit]
              run == rss_parse(feed, url, limit.rss, window)
          IN  /\ rss_data' = rss_data \o run.recs
              /\ log' = IF run.failed
                        THEN Append(log, LogEntry("warning", "RSS parse error", url))
                        ELSE log
              /\ attempts' = Append(attempts, Attempt("parse", url, feed))
    /\ IF unit < Len(RSS_URLS)
       THEN unit' = unit + 1 /\ UNCHANGED <<pc, calls, all_data>>
       ELSE unit' = 1 /\ Return("rss")
    /\ UNCHANGED <<scope, window, limit, reddit_data, news_data>>
    /\ UNCHANGED <<detVars, anaVars, scoreVars, batVars>>

\* one turn of the loop over URLS in NewsScraper.collect; after the last page
\* collect returns
NewsPage ==
    /\ pc = "news_page"
    /\ \E page \in Pages(scope) :
          LET base_url == NEWS_URLS[unit]
              run      == news_page(page, base_url, limit.news)
          IN  /\ news_data' = news_data \o run.recs
              /\ log' = log
                    \o [i \in 1..Len(run.lost) |->
                           LogEntry("warning", "Body fetch failed", run.lost[i])]
                    \o (IF run.failed
                        THEN <<LogEntry("error", "NewsScraper error", base_url)>>
                        ELSE <<>>)
              /\ attempts' = Append(attempts, Attempt("page", base_url, page))
    /\ IF unit < Len(NEWS_URLS)
       THEN unit' = unit + 1 /\ UNCHANGED <<pc, calls, all_data>>
       ELSE unit' = 1 /\ Return("news")
    /\ UNCHANGED <<scope, window, limit, reddit_data, rss_data>>
    /\ UNCHANGED <<detVars, anaVars, scoreVars, batVars>>

\* what the two scorers do on the collected texts in main()
MainOutcomes == {Score(-21), Score(6), Raise}

\* main(): processed_data = analyzer.batch_analyze(all_data)
MainAnalyze ==
    /\ pc = "analyze"
    /\ \E p \in MainOutcomes, c \in MainOutcomes :
          LET texts == {all_data[i].text.val : i \in 1..Len(all_data)}
          IN  /\ polarity' = [t \in texts |-> p]
              /\ compound' = [t \in texts |-> c]
              /\ all_data' = batch_analyze(all_data, FALSE, polarity', compound')
    /\ pc' = "done"
    /\ UNCHANGED <<scope, window, limit, unit, reddit_data, rss_data, news_data, histVars>>
    /\ UNCHANGED <<detVars, anaVars, batVars>>

NextCollect == Call \/ RedditClient \/ RedditSearch \/ RssParse \/ NewsPage

SpecCollect == InitCollect /\ [][NextCollect]_vars

Next == Call \/ RedditClient \/ RedditSearch \/ RssParse \/ NewsPage \/ MainAnalyze

Spec == Init /\ [][Next]_vars

---------------------------------------------------------------------------
(* What the claims call a token: stated on the text itself, without split *)

RECURSIVE Concat(_)
Concat(ps) == IF ps = <<>> THEN "" ELSE Head(ps) \o Concat(Tail(ps))

\* pieces i..j of t are a maximal run of non-whitespace
IsTokenAt(t, i, j) ==
    /\ 1 <= i /\ i <= j /\ j <= Len(t)
    /\ \A k \in i..j : t[k] # Space
    /\ (i = 1 \/ t[i - 1] = Space)
    /\ (j = Len(t) \/ t[j + 1] = Space)

\* the keywords of W that occur among the lower-cased tokens of t
KeywordsIn(t, W) ==
    {w \in W : \E i, j \in 1..Len(t) :
        /\ IsTokenAt(t, i, j)
        /\ Concat([k \in 1..(j - i + 1) |-> LowerPiece(t[i + k - 1])]) = w}

Detected == lang \in Languages

\* a str with at least one character that is not whitespace
NonBlank(v) == v.type = "str" /\ \E i \in 1..Len(v.val) : v.val[i] # Space

Analyzed == result \notin {"none", "idle"}

---------------------------------------------------------------------------
(* Claims *)

\* C1: a text with at least one Kinyarwanda keyword among its lower-cased
\* whitespace-delimited tokens is detected as rw, however many French keywords it
\* also holds.
C1_PriorityLaw ==
    (lang \notin {"none", "idle"} /\ KeywordsIn(text, RW_WORDS) # {}) => lang = "rw"

\* C1 witness: a text with a Kinyarwanda keyword and two distinct French keywords
\* has been detected.
C1_Witness ==
    /\ Detected
    /\ KeywordsIn(text, RW_WORDS) # {}
    /\ Cardinality(KeywordsIn(text, FR_WORDS)) >= 2

\* C2: a text with no Kinyarwanda keyword is detected as fr exactly when at least
\* two distinct French keywords occur among its tokens and as en otherwise, and
\* every detection ends in one of en, fr, rw.
C2_FrenchThreshold ==
    lang \notin {"none", "idle"} =>
        /\ lang \in Languages
        /\ KeywordsIn(text, RW_WORDS) = {} =>
              /\ lang = "fr" <=> Cardinality(KeywordsIn(text, FR_WORDS)) >= 2
              /\ lang = "en" <=> Cardinality(KeywordsIn(text, FR_WORDS)) < 2

\* C2 witness: one French keyword written twice, and nothing else, was detected as en.
C2_Witness ==
    /\ lang = "en"
    /\ KeywordsIn(text, FR_WORDS) = {"le"}
    /\ Cardinality({i \in 1..Len(text) : LowerPiece(text[i]) = "le"
                                          /\ IsTokenAt(text, i, i)}) = 2

\* C3: for a non-blank str on which neither the detector nor the scorer raises: if
\* the language is en or fr only the polarity scorer is called and the label is
\* positive iff polarity > 0.2, negative iff polarity < -0.2 and neutral otherwise;
\* if the language is rw only the valence scorer is called and the label is positive
\* iff compound > 0.05, negative iff compound < -0.05 and neutral otherwise.
C3_ThresholdLaw ==
    (Analyzed /\ NonBlank(arg) /\ ~detectFails) =>
        IF KeywordsIn(arg.val, RW_WORDS) = {}
        THEN /\ called = <<"detect", "polarity">>
             /\ ~polarity[arg.val].raised =>
                   LET p == polarity[arg.val].score
                   IN  /\ result = "positive" <=> p > 20
                       /\ result = "negative" <=> p < -20
                       /\ result = "neutral"  <=> (-20 <= p /\ p <= 20)
        ELSE /\ called = <<"detect", "compound">>
             /\ ~compound[arg.val].raised =>
                   LET c == compound[arg.val].score
                   IN  /\ result = "positive" <=> c > 5
                       /\ result = "negative" <=> c < -5
                       /\ result = "neutral"  <=> (-5 <= c /\ c <= 5)

\* C3 witness: a French text whose polarity is exactly 0.2 was labelled while the
\* valence scorer would have said something else.
C3_Witness ==
    /\ Analyzed /\ NonBlank(arg) /\ ~detectFails
    /\ Cardinality(KeywordsIn(arg.val, FR_WORDS)) >= 2
    /\ KeywordsIn(arg.val, RW_WORDS) = {}
    /\ polarity[arg.val] = Score(20)
    /\ compound[arg.val] = Score(-21)
    /\ result = "neutral"

\* C4: analyze always ends in one of the three labels; on a value that is no str, on
\* the empty string and on a whitespace-only string it ends in neutral having
\* called neither the detector nor a scorer; and when the detector or the scorer it
\* uses raises, it ends in neutral.
C4_Totality ==
    Analyzed =>
        /\ result \in Sentiments
        /\ ~NonBlank(arg) => (result = "neutral" /\ called = <<>>)
        /\ (NonBlank(arg) /\ detectFails) => result = "neutral"
        /\ (NonBlank(arg) /\ ~detectFails /\ KeywordsIn(arg.val, RW_WORDS) = {}
                /\ polarity[arg.val].raised) => result = "neutral"
        /\ (NonBlank(arg) /\ ~detectFails /\ KeywordsIn(arg.val, RW_WORDS) # {}
                /\ compound[arg.val].raised) => result = "neutral"

\* C4 witness: a whitespace-only string of two characters was analysed while both
\* scorers stood ready to label it positive.
C4_Witness ==
    /\ Analyzed
    /\ arg = PyStr(<<Space, Space>>)
    /\ polarity[arg.val] = Score(21)
    /\ compound[arg.val] = Score(21)
    /\ result = "neutral"

\* C5: batch_analyze returns the list it was given, of the same length and in the
\* same order; each record's sentiment is analyze of that record's own text, and
\* neutral when the record has no text; every other field is as it was.
C5_BatchFrame ==
    bpc = "done" =>
        /\ returned = items
        /\ Len(returned) = Len(given)
        /\ \A i \in 1..Len(given) :
              /\ DOMAIN returned[i] = DOMAIN given[i] \cup {"sentiment"}
              /\ \A k \in DOMAIN given[i] \ {"sentiment"} : returned[i][k] = given[i][k]
              /\ "text" \in DOMAIN given[i] =>
                    returned[i].sentiment =
                        analyze(given[i].text, FALSE, polarity, compound).label
              /\ "text" \notin DOMAIN given[i] => returned[i].sentiment = "neutral"

\* C5 witness: a list of two records was labelled, the first without a text field,
\* the second with a text that is not neutral.
C5_Witness ==
    /\ bpc = "done"
    /\ Len(returned) = 2
    /\ "text" \notin DOMAIN given[1]
    /\ "text" \in DOMAIN given[2]
    /\ returned[1].sentiment = "neutral"
    /\ returned[2].sentiment = "negative"

---------------------------------------------------------------------------
(* What the claims say about a run, read off the history of fetches *)

Collected == pc \in {"analyze", "done"}

\* the fetches of the collector's loop: all of them but the client construction
LoopAttempts ==
    IF attempts # <<>> /\ attempts[1].what = "client" THEN Tail(attempts) ELSE attempts

UnitsTried == [i \in 1..Len(LoopAttempts) |-> LoopAttempts[i].unit]

Logged(msg, about) == \E i \in 1..Len(log) : log[i].msg = msg /\ log[i].about = about

Within(t) == window[1] <= t /\ t <= window[2]

Keys(data) == {<<data[i].source, data[i].id>> : i \in 1..Len(data)}

IsPrefix(a, b) == Len(a) <= Len(b) /\ SubSeq(b, 1, Len(a)) = a

Smaller(a, b) == IF a < b THEN a ELSE b

\* submission number k of a search is reached: no submission before it was in the
\* window and had its comment expansion raise
PostReached(ps, k) ==
    \A j \in 1..(k - 1) : ~(Within(ps[j].created_utc) /\ ps[j].more_fails)

\* entry number k of a feed is handled: within the limit and before the entry whose
\* handling raises
EntryHandled(feed, k) ==
    /\ ~feed.parse_fails
    /\ k <= Smaller(Len(feed.entries), limit.rss)
    /\ (feed.bad = 0 \/ k < feed.bad)

\* article number k of a page is extracted: the page came, the article is within the
\* limit, and neither it nor an article before it has an <a> without href
ArticleExtracted(page, k) ==
    /\ page.ok
    /\ k <= Smaller(Len(page.articles), limit.news)
    /\ \A j \in 1..k : page.articles[j].a.kind # "nohref"

RECURSIVE ExtractedCount(_)
ExtractedCount(as) ==
    IF as = <<>> THEN 0
    ELSE Cardinality({k \in 1..Len(Head(as).got.articles) :
                         ArticleExtracted(Head(as).got, k)})
             + ExtractedCount(Tail(as))

\* an endpoint that could not be reached hands over nothing
Unreachable(a) ==
    CASE a.what = "search" -> a.got.posts = <<>> /\ a.got.fail
      [] a.what = "parse"  -> a.got.parse_fails \/ a.got.entries = <<>>
      [] a.what = "page"   -> ~a.got.ok
      [] OTHER             -> FALSE

OwnData ==
    CASE scope = "reddit" -> reddit_data
      [] scope = "rss"    -> rss_data
      [] OTHER            -> news_data

---------------------------------------------------------------------------
(* Claims on the collectors and on collect_all *)

\* C6: no two records of the list collect_all returns have the same (source, id).
C6_DedupKeys ==
    Collected =>
        \A i, j \in 1..Len(all_data) :
            i < j => <<all_data[i].source, all_data[i].id>>
                         # <<all_data[j].source, all_data[j].id>>

\* C7: no collector's collect raises to its caller, whatever fails; and with the
\* credentials missing, or with every endpoint unreachable, the list returned is
\* empty.
C7_CollectorTotality ==
    /\ pc # "raised"
    /\ (pc = "returned" /\ scope = "reddit" /\ attempts[1].unit = "missing")
           => reddit_data = <<>>
    /\ (pc = "returned" /\ \A i \in 1..Len(LoopAttempts) : Unreachable(LoopAttempts[i]))
           => OwnData = <<>>

\* C8, in every state: once a collector has gone through its loop, every unit has
\* been tried, in the fixed order, whichever of them failed; every record a unit
\* emitted before it failed is in the collector's list; and an article whose body
\* fetch failed has its record, with an empty body.
C8_State ==
    /\ (pc = "returned" /\ scope = "reddit" /\ attempts[1].got = "ok"
            /\ attempts[1].unit = "present") => UnitsTried = REDDIT_KEYWORDS
    /\ (pc = "returned" /\ scope = "rss")  => UnitsTried = RSS_URLS
    /\ (pc = "returned" /\ scope = "news") => UnitsTried = NEWS_URLS
    /\ \A i \in 1..Len(LoopAttempts) :
          LET a == LoopAttempts[i]
          IN  CASE a.what = "search" ->
                     \A k \in 1..Len(a.got.posts) :
                         (Within(a.got.posts[k].created_utc) /\ PostReached(a.got.posts, k))
                             => <<"reddit", a.got.posts[k].id>> \in Keys(reddit_data)
                [] a.what = "parse" ->
                     \A k \in 1..Len(a.got.entries) :
                         LET e == a.got.entries[k]
                         IN  (EntryHandled(a.got, k)
                                /\ (rss_date(e).some => Within(rss_date(e).t)))
                                 => <<"rss", IF "link" \in DOMAIN e THEN e.link ELSE a.unit>>
                                        \in Keys(rss_data)
                [] a.what = "page" ->
                     \A k \in 1..Len(a.got.articles) :
                         LET art  == a.got.articles[k]
                             link == news_link(art, a.unit)
                         IN  ArticleExtracted(a.got, k) =>
                                 /\ <<"news", link>> \in Keys(news_data)
                                 /\ ~art.body.ok =>
                                       /\ Logged("Body fetch failed", link)
                                       /\ \E n \in 1..Len(news_data) :
                                             /\ news_data[n].id = link
                                             /\ news_data[n].text.val
                                                    = news_data[n].title \o <<".">>
                [] OTHER -> TRUE

\* C8, in every step: a unit that fails is followed by its next sibling, and the
\* records emitted so far stay where they are.
C8_Step ==
    /\ IsPrefix(reddit_data, reddit_data')
    /\ IsPrefix(rss_data, rss_data')
    /\ IsPrefix(news_data, news_data')
    /\ (Len(log') > Len(log) /\ pc = "reddit_search" /\ unit < Len(REDDIT_KEYWORDS))
           => (pc' = pc /\ unit' = unit + 1)
    /\ (Len(log') > Len(log) /\ pc = "rss_parse" /\ unit < Len(RSS_URLS))
           => (pc' = pc /\ unit' = unit + 1)
    /\ (Len(log') > Len(log) /\ pc = "news_page" /\ unit < Len(NEWS_URLS))
           => (pc' = pc /\ unit' = unit + 1)

\* C8: failure isolation at unit granularity: after the failure of one keyword,
\* feed, page or article body the later siblings are still tried, and the records
\* emitted before the failure are in the result; a failed body fetch still yields
\* the article's record, with an empty body.
C8_FailureIsolation == [](C8_State) /\ [][C8_Step]_vars

\* C8 witness: the first feed failed on its second entry after its first entry was
\* emitted, the second feed was parsed all the same and added a record.
C8_Witness ==
    /\ pc = "returned" /\ scope = "rss" /\ limit.rss = 2
    /\ attempts[1].got.bad = 2
    /\ Logged("RSS parse error", RSS_URLS[1])
    /\ ~Logged("RSS parse error", RSS_URLS[2])
    /\ Len(rss_data) = 2

C10_Concatenation ==
    /\ IsPrefix(calls, <<"reddit", "rss", "news">>)
    /\ Collected => calls = <<"reddit", "rss", "news">>
    /\ pc = "analyze" => all_data = reddit_data \o rss_data \o news_data
    /\ Collected =>
          /\ Len(all_data) = Len(reddit_data) + Len(rss_data) + Len(news_data)
          /\ \A i \in 1..Len(all_data) :
                LET r == (reddit_data \o rss_data \o news_data)[i]
                IN  \A k \in DOMAIN r : all_data[i][k] = r[k]
    /\ pc # "done" =>
          \A d \in {reddit_data, rss_data, news_data, all_data} :
              \A i \in 1..Len(d) : "sentiment" \notin DOMAIN d[i]
    /\ pc = "done" => \A i \in 1..Len(all_data) : all_data[i].sentiment \in Sentiments

\* C10 witness: collect_all returned a list with records of all three collectors in
\* which two records have the same key.
C10_Witness ==
    /\ pc = "analyze"
    /\ reddit_data # <<>> /\ rss_data # <<>> /\ news_data # <<>>
    /\ Cardinality(Keys(all_data)) < Len(all_data)

---------------------------------------------------------------------------
(* Claims on the records and on what each collector emits per item *)

\* every record emitted so far, by whichever collector
Emitted == reddit_data \o rss_data \o news_data

\* C11: every record a collector emits has a text that is a string, non-empty after
\* trimming, and a language among en, fr, rw: whatever the item was, a post with an
\* empty body, a feed entry with no title and no summary, an article with no
\* heading and a failed body fetch, a reply whose body is whitespace only.
C11_RecordInvariant ==
    \A i \in 1..Len(Emitted) :
        /\ isinstance_str(Emitted[i].text)
        /\ strip(Emitted[i].text.val) # <<>>
        /\ Emitted[i].language \in Languages

\* the records a step appended to a collector's list
Fresh(data, data2) == SubSeq(data2, Len(data) + 1, Len(data2))

\* element number j, in increasing order, of a set of numbers
NthOf(S, j) == CHOOSE k \in S : Cardinality({m \in S : m < k}) = j - 1

\* the date an entry has if any of its published and updated strings parses
AnyDate(e) ==
    IF "published" \in DOMAIN e /\ e.published.parses THEN Some(e.published.t)
    ELSE IF "updated" \in DOMAIN e /\ e.updated.parses THEN Some(e.updated.t)
    ELSE None

\* the records new are those of the entries, among the first n of the feed, that
\* have no date or a date in the window, in the order of the feed; they are no more
\* than the limit, and the record of an entry without date is dated now
FeedLaw(feed, url, new, Date(_), n) ==
    LET S == {k \in 1..n : ~Date(feed.entries[k]).some \/ Within(Date(feed.entries[k]).t)}
    IN  /\ Len(new) <= limit.rss
        /\ Len(new) = Cardinality(S)
        /\ \A j \in 1..Len(new) :
              LET e == feed.entries[NthOf(S, j)]
              IN  /\ new[j].source = "rss"
                  /\ new[j].id = (IF "link" \in DOMAIN e THEN e.link ELSE url)
                  /\ ~Date(e).some => new[j].date = Now

\* a feed was parsed in this step
Parsed ==
    /\ Len(attempts') = Len(attempts) + 1
    /\ attempts'[Len(attempts')].what = "parse"

\* how many entries of a feed are handled: those within the limit that come before
\* the entry on which an exception ends the parse
HandledCount(feed) ==
    LET n == Smaller(Len(feed.entries), limit.rss)
    IN  IF feed.parse_fails THEN 0
        ELSE IF feed.bad = 0 THEN n
        ELSE Smaller(n, feed.bad - 1)

\* C12 as claimed: for each feed parsed, the records emitted are at most `limit`,
\* drawn from the first `limit` entries only, and among those of them handled
\* before an exception ends the parse an entry is emitted iff none of its published
\* and updated dates parses or its parsed date is in the window; the record of an
\* entry without date carries the current time.
C12_FeedLimit ==
    [][Parsed =>
          LET a == attempts'[Len(attempts')]
          IN  FeedLaw(a.got, a.unit, Fresh(rss_data, rss_data'), AnyDate,
                      HandledCount(a.got))]_vars

\* C12 as amended: for each feed parsed, the records emitted are at most `limit`,
\* drawn from the first `limit` entries only, and among those of them handled
\* before an exception ends the parse an entry is emitted iff the date string read
\* for it (published or, if that is absent or empty, updated) is absent, empty or
\* unparseable, or parses to a date in the window; the record of an entry emitted
\* without a parsed date carries the current time.
C12_FeedLimitRead ==
    [][Parsed =>
          LET a == attempts'[Len(attempts')]
          IN  FeedLaw(a.got, a.unit, Fresh(rss_data, rss_data'), rss_date,
                      HandledCount(a.got))]_vars

\* C12 witness: with limit 1, a feed of an entry without date and an entry dated in
\* the window gave one record, that of the first entry, dated now.
C12_Witness ==
    /\ pc = "returned" /\ scope = "rss" /\ limit.rss = 1
    /\ attempts[1].got.entries = <<UndatedEntry("l2"), FullEntry("l1", RawDate(1))>>
    /\ attempts[1].got.bad = 0
    /\ attempts[2].got.entries = <<>>
    /\ Len(rss_data) = 1
    /\ rss_data[1].id = "l2" /\ rss_data[1].date = Now

\* a search was run in this step
Searched ==
    /\ Len(attempts') = Len(attempts) + 1
    /\ attempts'[Len(attempts')].what = "search"

\* a reply the collector keeps: its body is neither empty nor '[deleted]'
Kept(c) == c.body # <<>> /\ c.body # <<"[deleted]">>

\* the records new are what the posts ps of one search yield: one record for each
\* post returned that was created in the window, in the order of the listing, each
\* followed at once by the records of its replies; these are the kept ones among the
\* post's first 10 replies, in the order of the listing, whenever they were created,
\* and none if the expansion of the replies raised
SearchLaw(ps, new) ==
    LET InW  == {k \in 1..Len(ps) : Within(ps[k].created_utc) /\ PostReached(ps, k)}
        Pos  == {j \in 1..Len(new) : new[j].source = "reddit"}
        n    == Cardinality(Pos)
        At(i)   == NthOf(Pos, i)
        Stop(i) == IF i < n THEN NthOf(Pos, i + 1) - 1 ELSE Len(new)
    IN  /\ n = Cardinality(InW)
        /\ new # <<>> => 1 \in Pos
        /\ \A i \in 1..n :
              LET sub    == ps[NthOf(InW, i)]
                  first  == SubSeq(sub.comments, 1, Smaller(Len(sub.comments), 10))
                  Elig   == IF sub.more_fails THEN {}
                            ELSE {m \in 1..Len(first) : Kept(first[m])}
                  block  == SubSeq(new, At(i) + 1, Stop(i))
              IN  /\ new[At(i)].id = sub.id
                  /\ new[At(i)].date = sub.created_utc
                  /\ Len(block) <= 10
                  /\ Len(block) = Cardinality(Elig)
                  /\ \A r \in 1..Len(block) :
                        /\ block[r].source = "reddit_comment"
                        /\ block[r].id = first[NthOf(Elig, r)].id
                        /\ block[r].text.val = first[NthOf(Elig, r)].body
                        /\ block[r].text.val # <<>>
                        /\ block[r].text.val # <<"[deleted]">>

=============================================================================
